---- MODULE Spec2Model ----
(***************************************************************************)
(* Model of policies.Gatherer.DataForCertificate                           *)
(* (pkg/controller/certificates/trigger/policies/gatherer.go).             *)
(*                                                                         *)
(* The Gatherer reads a SecretLister and a CertificateRequestLister (two   *)
(* caches that other controllers keep changing) and composes an Input:     *)
(* the certificate, its secret, and the "current" and "next"               *)
(* CertificateRequest of the certificate's revision.                       *)
(*                                                                         *)
(* All objects live in the namespace of the certificate: both listers are  *)
(* scoped with crt.Namespace, so the model keeps one namespace.            *)
(* Revisions are Go ints; the model keeps them far below the int width.    *)
(***************************************************************************)
EXTENDS Integers, Sequences, FiniteSets, TLC

\* ------------------------------------------------------------------ bounds
MaxRev == 2          \* certificate revisions are nil or 1..MaxRev
MaxReqs == 4         \* requests of the certificate alive at once (Spec)
MaxForeign == 1      \* requests of another certificate alive at once
MaxRaceReqs == 2     \* requests of the certificate alive at once (RaceSpec)

CrtUID == "uid-crt"
OtherUID == "uid-other"
UIDs == {CrtUID, OtherUID}
CrtSecretName == "tls-secret"
SecretNames == {CrtSecretName}
ReqRevisions == 1..(MaxRev + 1)

\* ------------------------------------------------------------------ values
\* A nil pointer.
Nil == [kind |-> "nil"]

\* crt.Status.Revision is a *int: {} is the nil pointer, {r} points to r.
Revisions == {{}} \cup {{r} : r \in 1..MaxRev}

Deref(p) == CHOOSE r \in p : TRUE

\* The certificates a caller can hand to DataForCertificate.
Certificates ==
    {[kind |-> "Certificate", uid |-> CrtUID, secretName |-> CrtSecretName,
      revision |-> rv] : rv \in Revisions}

\* A CertificateRequest: the serial number tells apart the requests one
\* owner has at one revision, which differ in nothing else the Gatherer reads.
CertificateRequest(serial, owner, rev) ==
    [kind |-> "CertificateRequest", serial |-> serial, owner |-> owner,
     revision |-> rev]

Secret(name) == [kind |-> "Secret", name |-> name]

\* Errors of the collaborators.
NotFoundErr == [kind |-> "error", reason |-> "NotFound"]
SecretListerErr == [kind |-> "error", reason |-> "SecretListerFailed"]
RequestListerErr == [kind |-> "error", reason |-> "RequestListerFailed"]

IsNotFound(err) == err = NotFoundErr

\* fmt.Errorf("multiple CertificateRequests were found for the '<window>'
\* revision <rev>, issuance is skipped until there are no more duplicates")
MultipleErr(window, rev) ==
    [kind |-> "error", reason |-> "multiple CertificateRequests were found",
     window |-> window, revision |-> rev]

\* Input{} : the zero value returned next to every error.
EmptyInput ==
    [Certificate |-> Nil, Secret |-> Nil,
     CurrentRevisionRequest |-> Nil, NextRevisionRequest |-> Nil]

\* ------------------------------------------------------------------- state
VARIABLES
    requests,    \* the CertificateRequests the lister's cache holds
    secrets,     \* the names of the Secrets the lister's cache holds
    call,        \* the running (or just returned) call of DataForCertificate
    dirty,       \* a cache changed while the call was between two lookups
    tornBefore   \* an earlier call returned what no single cache state gives

vars == <<requests, secrets, call, dirty, tornBefore>>

\* No call: the locals of DataForCertificate do not exist.
Idle ==
    [pc |-> "idle", crt |-> Nil, secret |-> Nil, curCR |-> Nil,
     queries |-> <<>>, ret |-> Nil]

\* ------------------------------------------------------- the collaborators
\* g.SecretLister.Secrets(ns).Get(name): the object, or a NotFound error, or
\* the failure of the lister (outcome is the error the lister runs into, Nil
\* when it works).
SecretsGet(secs, name, outcome) ==
    IF outcome # Nil THEN [obj |-> Nil, err |-> outcome]
    ELSE IF name \in secs THEN [obj |-> Secret(name), err |-> Nil]
    ELSE [obj |-> Nil, err |-> NotFoundErr]

\* predicate.ResourceOwnedBy(crt)
ResourceOwnedBy(crt) == [pred |-> "ResourceOwnedBy", uid |-> crt.uid]

\* predicate.CertificateRequestRevision(rev)
CertificateRequestRevision(rev) ==
    [pred |-> "CertificateRequestRevision", revision |-> rev]

\* Whether a predicate accepts a request.
Matches(p, req) ==
    IF p.pred = "ResourceOwnedBy" THEN req.owner = p.uid
    ELSE req.revision = p.revision

\* certificates.ListCertificateRequestsMatchingPredicates(lister,
\* labels.Everything(), predicates...): the requests every predicate accepts,
\* or the failure of the lister.
ListCertificateRequestsMatchingPredicates(reqs, preds, outcome) ==
    IF outcome # Nil THEN [objs |-> {}, err |-> outcome]
    ELSE [objs |-> {r \in reqs : \A p \in preds : Matches(p, r)},
          err |-> Nil]

\* ------------------------------------------------- DataForCertificate, steps
\* An error returned next to what the call has gathered so far.
ReturnErr_Partial(f, q, err) ==
    [f EXCEPT !.pc = "done", !.queries = q,
              !.ret = [input |-> [Certificate |-> f.crt,
                                  Secret |-> f.secret,
                                  CurrentRevisionRequest |-> f.curCR,
                                  NextRevisionRequest |-> Nil],
                       err |-> err]]

\* return Input{}, err
ReturnErr(f, q, err) ==
    [f EXCEPT !.pc = "done", !.queries = q,
              !.ret = [input |-> EmptyInput, err |-> err]]

\* The secret lookup returning every error, NotFound included.
SecretLookup_NotFoundFails(f, secs, outcome) ==
    LET r == SecretsGet(secs, f.crt.secretName, outcome)
        q == Append(f.queries,
                    [op |-> "Secrets.Get", name |-> f.crt.secretName,
                     err |-> r.err])
    IN IF r.err # Nil
       THEN [f EXCEPT !.pc = "done", !.queries = q,
                      !.ret = [input |-> EmptyInput, err |-> r.err]]
       ELSE [f EXCEPT !.pc = "current", !.queries = q, !.secret = r.obj]

\* The secret lookup going on to the requests after a failure, which it
\* returns at the end.
SecretLookup_NoEarlyReturn(f, secs, outcome) ==
    LET r == SecretsGet(secs, f.crt.secretName, outcome)
        q == Append(f.queries,
                    [op |-> "Secrets.Get", name |-> f.crt.secretName,
                     err |-> r.err])
    IN [f EXCEPT !.pc = "current", !.queries = q, !.secret = r.obj]

\* The secret lookup.
SecretLookup(f, secs, outcome) ==
    LET r == SecretsGet(secs, f.crt.secretName, outcome)
        q == Append(f.queries,
                    [op |-> "Secrets.Get", name |-> f.crt.secretName,
                     err |-> r.err])
    IN IF r.err # Nil /\ ~IsNotFound(r.err)
       THEN ReturnErr(f, q, r.err)
       ELSE [f EXCEPT !.pc = "current", !.queries = q, !.secret = r.obj]

\* The "current" query without predicate.ResourceOwnedBy(crt).
CurrentPredicates_NoOwner(crt) ==
    {CertificateRequestRevision(Deref(crt.revision))}

\* The predicates of the query for the "current" revision.
CurrentPredicates(crt) ==
    {ResourceOwnedBy(crt), CertificateRequestRevision(Deref(crt.revision))}

\* The lookup of the "current" CertificateRequest picking one of several.
CurrentWindow_PicksOne(f, reqs, outcome) ==
    IF f.crt.revision = {} THEN [f EXCEPT !.pc = "next"]
    ELSE
      LET preds == {ResourceOwnedBy(f.crt),
                    CertificateRequestRevision(Deref(f.crt.revision))}
          r == ListCertificateRequestsMatchingPredicates(reqs, preds, outcome)
          q == Append(f.queries,
                      [op |-> "List", preds |-> preds, err |-> r.err])
      IN IF r.err # Nil
           THEN [f EXCEPT !.pc = "done", !.queries = q,
                          !.ret = [input |-> EmptyInput, err |-> r.err]]
         ELSE IF Cardinality(r.objs) >= 1
           THEN [f EXCEPT !.pc = "next", !.queries = q,
                          !.curCR = CHOOSE x \in r.objs : TRUE]
         ELSE [f EXCEPT !.pc = "next", !.queries = q]

\* The lookup of the "current" CertificateRequest.
CurrentWindow(f, reqs, outcome) ==
    IF f.crt.revision = {} THEN [f EXCEPT !.pc = "next"]
    ELSE
      LET preds == CurrentPredicates(f.crt)
          r == ListCertificateRequestsMatchingPredicates(reqs, preds, outcome)
          q == Append(f.queries,
                      [op |-> "List", preds |-> preds, err |-> r.err])
      IN IF r.err # Nil THEN ReturnErr(f, q, r.err)
         ELSE IF Cardinality(r.objs) > 1
           THEN ReturnErr(f, q, MultipleErr("current", Deref(f.crt.revision)))
         ELSE IF Cardinality(r.objs) = 1
           THEN [f EXCEPT !.pc = "next", !.queries = q,
                          !.curCR = CHOOSE x \in r.objs : TRUE]
         ELSE [f EXCEPT !.pc = "next", !.queries = q]

\* nextCRRevision left at the zero value of an int when the revision is nil.
NextCRRevision_ZeroInit(crt) ==
    IF crt.revision # {} THEN Deref(crt.revision) + 1 ELSE 0

\* nextCRRevision
NextCRRevision(crt) ==
    IF crt.revision # {} THEN Deref(crt.revision) + 1 ELSE 1

\* The "next" query filtering on the revision of the certificate itself.
NextPredicates_SameRevision(crt) ==
    {ResourceOwnedBy(crt),
     CertificateRequestRevision(IF crt.revision # {}
                                THEN Deref(crt.revision) ELSE 1)}

\* The "next" query without predicate.CertificateRequestRevision.
NextPredicates_NoRevision(crt) == {ResourceOwnedBy(crt)}

\* The predicates of the query for the "next" revision.
NextPredicates(crt) ==
    {ResourceOwnedBy(crt), CertificateRequestRevision(NextCRRevision(crt))}

\* The result with the two requests in each other's field.
ReturnInput_Swapped(f, q, nextCR) ==
    [f EXCEPT !.pc = "done", !.queries = q,
              !.ret = [input |-> [Certificate |-> f.crt,
                                  Secret |-> f.secret,
                                  CurrentRevisionRequest |-> nextCR,
                                  NextRevisionRequest |-> f.curCR],
                       err |-> Nil]]

\* return Input{crt, secret, curCR, nextCR}, nil
ReturnInput(f, q, nextCR) ==
    [f EXCEPT !.pc = "done", !.queries = q,
              !.ret = [input |-> [Certificate |-> f.crt,
                                  Secret |-> f.secret,
                                  CurrentRevisionRequest |-> f.curCR,
                                  NextRevisionRequest |-> nextCR],
                       err |-> Nil]]

\* The lookup of the "next" CertificateRequest, and the result.
NextWindow(f, reqs, outcome) ==
    LET preds == NextPredicates(f.crt)
        r == ListCertificateRequestsMatchingPredicates(reqs, preds, outcome)
        q == Append(f.queries,
                    [op |-> "List", preds |-> preds, err |-> r.err])
    IN IF r.err # Nil THEN ReturnErr(f, q, r.err)
       ELSE IF Cardinality(r.objs) > 1
         THEN ReturnErr(f, q, MultipleErr("next", NextCRRevision(f.crt)))
       ELSE IF Cardinality(r.objs) = 1
         THEN ReturnInput(f, q, CHOOSE x \in r.objs : TRUE)
       ELSE ReturnInput(f, q, Nil)

\* The entry of a call that finds secret and curCR as the call before left
\* them (fields of the Gatherer instead of locals).
Enter_KeepsLocals(crt) ==
    [call EXCEPT !.pc = "secret", !.crt = crt, !.queries = <<>>,
                 !.ret = Nil]

\* The locals at the entry of DataForCertificate(ctx, crt).
Enter(crt) == [Idle EXCEPT !.pc = "secret", !.crt = crt]

\* ------------------------------------------------------------------ actions
\* What one lookup of a lister can run into.
SecretOutcomes == {Nil, SecretListerErr}
RequestOutcomes == {Nil, RequestListerErr}

\* The environment moves on: a returned call has been consumed by its caller,
\* a running one has had a cache change under it.
Environment ==
    /\ call' = IF call.pc = "done" THEN Idle ELSE call
    /\ dirty' = (call.pc \in {"secret", "current", "next"})
    /\ UNCHANGED tornBefore

\* Another controller creates a CertificateRequest, while fewer than max
\* requests of the certificate are alive.
CreateRequest(owner, rev, max) ==
    /\ IF owner = CrtUID
       THEN Cardinality({r \in requests : r.owner = CrtUID}) < max
       ELSE Cardinality({r \in requests : r.owner # CrtUID}) < MaxForeign
    /\ LET n == Cardinality({r \in requests :
                               r.owner = owner /\ r.revision = rev})
       IN requests' = requests \cup {CertificateRequest(n + 1, owner, rev)}
    /\ UNCHANGED secrets
    /\ Environment

\* Another controller deletes the latest CertificateRequest an owner has at a
\* revision.
DeleteRequest(owner, rev) ==
    /\ LET same == {r \in requests : r.owner = owner /\ r.revision = rev}
       IN /\ same # {}
          /\ requests' = requests \ {r \in same :
                                       r.serial = Cardinality(same)}
    /\ UNCHANGED secrets
    /\ Environment

\* A Secret appears.
CreateSecret(name) ==
    /\ name \notin secrets
    /\ secrets' = secrets \cup {name}
    /\ UNCHANGED requests
    /\ Environment

\* A Secret disappears.
DeleteSecret(name) ==
    /\ name \in secrets
    /\ secrets' = secrets \ {name}
    /\ UNCHANGED requests
    /\ Environment

\* A call that removes the latest duplicate it finds for the "current"
\* revision from the cache.
DataForCertificate_Prunes(crt, o1, o2, o3) ==
    /\ call.pc \in {"idle", "done"}
    /\ LET f1 == SecretLookup(Enter(crt), secrets, o1)
           f2 == IF f1.pc = "current" THEN CurrentWindow(f1, requests, o2)
                 ELSE f1
           f3 == IF f2.pc = "next" THEN NextWindow(f2, requests, o3) ELSE f2
           dup == IF crt.revision = {} THEN {}
                  ELSE {r \in requests :
                          /\ r.owner = crt.uid
                          /\ r.revision = Deref(crt.revision)
                          /\ r.serial > 1}
       IN /\ call' = f3
          /\ requests' = requests \ dup
    /\ dirty' = FALSE
    /\ UNCHANGED <<secrets, tornBefore>>

\* One whole call of DataForCertificate against caches that hold still.
DataForCertificate(crt, o1, o2, o3) ==
    /\ call.pc \in {"idle", "done"}
    /\ LET f1 == SecretLookup(Enter(crt), secrets, o1)
           f2 == IF f1.pc = "current" THEN CurrentWindow(f1, requests, o2)
                 ELSE f1
           f3 == IF f2.pc = "next" THEN NextWindow(f2, requests, o3) ELSE f2
       IN call' = f3
    /\ dirty' = FALSE
    /\ UNCHANGED <<requests, secrets, tornBefore>>

Init ==
    /\ requests = {}
    /\ secrets = {}
    /\ call = Idle
    /\ dirty = FALSE
    /\ tornBefore = FALSE

Next ==
    \/ \E o \in UIDs, rv \in ReqRevisions : CreateRequest(o, rv, MaxReqs)
    \/ \E o \in UIDs, rv \in ReqRevisions : DeleteRequest(o, rv)
    \/ \E s \in SecretNames : CreateSecret(s)
    \/ \E s \in SecretNames : DeleteSecret(s)
    \/ \E crt \in Certificates, o1 \in SecretOutcomes,
          o2 \in RequestOutcomes, o3 \in RequestOutcomes :
          DataForCertificate(crt, o1, o2, o3)

Spec == Init /\ [][Next]_vars

\* ------------------------------------------- the same call, lookup by lookup
\* The listers take no lock for the call: other controllers change the caches
\* between two lookups of one call.

\* The requests of one owner at one revision.
OwnedAt(reqs, uid, rev) ==
    {r \in reqs : r.owner = uid /\ r.revision = rev}

\* The only element of a set of at most one element, Nil for none.
TheOne(S) == IF S = {} THEN Nil ELSE CHOOSE x \in S : TRUE

\* What DataForCertificate is documented to return for a certificate against
\* one state of the two caches, the three lookups running into e1, e2, e3
\* (Nil: the lister works).
Expected(crt, secs, reqs, e1, e2, e3) ==
    LET hasRev == crt.revision # {}
        cur == IF hasRev THEN OwnedAt(reqs, crt.uid, Deref(crt.revision))
               ELSE {}
        nrev == IF hasRev THEN Deref(crt.revision) + 1 ELSE 1
        nxt == OwnedAt(reqs, crt.uid, nrev)
        fail(e) == [input |-> EmptyInput, err |-> e]
    IN IF e1 # Nil THEN fail(e1)
       ELSE IF hasRev /\ e2 # Nil THEN fail(e2)
       ELSE IF Cardinality(cur) > 1
         THEN fail(MultipleErr("current", Deref(crt.revision)))
       ELSE IF e3 # Nil THEN fail(e3)
       ELSE IF Cardinality(nxt) > 1 THEN fail(MultipleErr("next", nrev))
       ELSE [input |-> [Certificate |-> crt,
                        Secret |-> IF crt.secretName \in secs
                                   THEN Secret(crt.secretName) ELSE Nil,
                        CurrentRevisionRequest |-> TheOne(cur),
                        NextRevisionRequest |-> TheOne(nxt)],
             err |-> Nil]

\* The error the n-th lookup of a call ran into (Nil: the lister worked, or
\* the lookup did not happen).
OutcomeAt(q, n) ==
    IF n > Len(q) THEN Nil
    ELSE IF IsNotFound(q[n].err) THEN Nil ELSE q[n].err

\* The errors the secret, "current" and "next" lookups of a call ran into.
SecretOutcome(f) == OutcomeAt(f.queries, 1)
CurrentOutcome(f) ==
    IF f.crt.revision = {} THEN Nil ELSE OutcomeAt(f.queries, 2)
NextOutcome(f) ==
    OutcomeAt(f.queries, IF f.crt.revision = {} THEN 2 ELSE 3)

\* What the contract gives for the certificate of a call against the caches
\* as they are now, the listers failing as they did in the call.
ExpectedNow(f) ==
    Expected(f.crt, secrets, requests,
             SecretOutcome(f), CurrentOutcome(f), NextOutcome(f))

\* A call returns: remember whether what it returns is torn.
Returns(f) ==
    tornBefore' = (tornBefore \/
                   (f.pc = "done" /\ f.ret # ExpectedNow(f)))

\* The caller invokes DataForCertificate(ctx, crt).
Begin(crt) ==
    /\ call.pc \in {"idle", "done"}
    /\ call' = Enter(crt)
    /\ dirty' = FALSE
    /\ UNCHANGED <<requests, secrets, tornBefore>>

StepSecret(outcome) ==
    /\ call.pc = "secret"
    /\ call' = SecretLookup(call, secrets, outcome)
    /\ Returns(call')
    /\ UNCHANGED <<requests, secrets, dirty>>

StepCurrent(outcome) ==
    /\ call.pc = "current"
    /\ call' = CurrentWindow(call, requests, outcome)
    /\ Returns(call')
    /\ UNCHANGED <<requests, secrets, dirty>>

StepNext(outcome) ==
    /\ call.pc = "next"
    /\ call' = NextWindow(call, requests, outcome)
    /\ Returns(call')
    /\ UNCHANGED <<requests, secrets, dirty>>

RaceNext ==
    \/ \E rv \in ReqRevisions : CreateRequest(CrtUID, rv, MaxRaceReqs)
    \/ \E rv \in ReqRevisions : DeleteRequest(CrtUID, rv)
    \/ CreateSecret(CrtSecretName)
    \/ DeleteSecret(CrtSecretName)
    \/ \E crt \in Certificates : Begin(crt)
    \/ \E o \in SecretOutcomes : StepSecret(o)
    \/ \E o \in RequestOutcomes : StepCurrent(o)
    \/ \E o \in RequestOutcomes : StepNext(o)

RaceSpec == Init /\ [][RaceNext]_vars

\* ================================================================ properties
\* The List lookups of a call, in the order they were made.
ListQueries(f) == SelectSeq(f.queries, LAMBDA e : e.op = "List")

\* The revisions a List lookup filtered on.
QueriedRevisions(e) ==
    {p.revision : p \in {x \in e.preds : x.pred = "CertificateRequestRevision"}}

Done == call.pc = "done"
Succeeded == Done /\ call.ret.err = Nil
DoneNilRevision == Done /\ call.crt.revision = {}
DoneWithRevision == Done /\ call.crt.revision # {}
CurRev == Deref(call.crt.revision)
OwnedCurrent == OwnedAt(requests, call.crt.uid, CurRev)
OwnedNext ==
    OwnedAt(requests, call.crt.uid,
            IF call.crt.revision = {} THEN 1 ELSE CurRev + 1)

\* C1: for a certificate whose revision is nil, whatever the caches hold, no
\* query is made for the "current" window, the only List lookup filters on
\* revision 1 and is made whenever the secret lookup did not fail, a result
\* without error has a nil current request, and the result and the error are
\* those the requests of revision 1 alone give.
C1_NilRevisionQueriesOnlyOne ==
    DoneNilRevision =>
      LET lq == ListQueries(call)
      IN /\ Len(lq) <= 1
         /\ \A i \in 1..Len(lq) : QueriedRevisions(lq[i]) = {1}
         /\ SecretOutcome(call) = Nil => Len(lq) = 1
         /\ call.ret.err = Nil =>
               call.ret.input.CurrentRevisionRequest = Nil
         /\ call.ret =
               Expected(call.crt, secrets,
                        {r \in requests : r.revision = 1},
                        SecretOutcome(call), Nil, NextOutcome(call))

\* C1 witness: revision nil, a request of the certificate at revision 1 next
\* to two of its requests at revision 2; the call returns the first as next.
C1_Witness ==
    /\ DoneNilRevision
    /\ Cardinality(OwnedAt(requests, CrtUID, 2)) >= 2
    /\ Cardinality(OwnedAt(requests, CrtUID, 1)) = 1
    /\ call.ret.err = Nil
    /\ call.ret.input.NextRevisionRequest \in OwnedAt(requests, CrtUID, 1)

\* C2: for a certificate of revision R the "current" lookup filters on
\* revision R and the "next" lookup, when reached, on R+1; a returned current
\* request has revision R and a returned next request revision R+1.
C2_WindowsAreRAndRPlusOne ==
    DoneWithRevision =>
      LET lq == ListQueries(call)
      IN /\ Len(lq) <= 2
         /\ SecretOutcome(call) = Nil => Len(lq) >= 1
         /\ Len(lq) >= 1 => QueriedRevisions(lq[1]) = {CurRev}
         /\ Len(lq) = 2 => QueriedRevisions(lq[2]) = {CurRev + 1}
         /\ call.ret.err = Nil =>
               /\ Len(lq) = 2
               /\ call.ret.input.CurrentRevisionRequest # Nil =>
                     call.ret.input.CurrentRevisionRequest.revision = CurRev
               /\ call.ret.input.NextRevisionRequest # Nil =>
                     call.ret.input.NextRevisionRequest.revision = CurRev + 1

\* C2 witness: a call for revision R returns both a current and a next
\* request.
C2_Witness ==
    /\ DoneWithRevision
    /\ call.ret.err = Nil
    /\ call.ret.input.CurrentRevisionRequest # Nil
    /\ call.ret.input.NextRevisionRequest # Nil

\* C3: a request of another certificate never becomes the current or the
\* next request, and an ambiguity error is raised only when the certificate
\* itself owns two or more requests at the revision the error names.
C3_ForeignRequestsNeverCount ==
    Done =>
      /\ \A x \in {call.ret.input.CurrentRevisionRequest,
                   call.ret.input.NextRevisionRequest} :
            x # Nil => x.owner = call.crt.uid
      /\ \A w \in {"current", "next"}, rv \in 1..(MaxRev + 2) :
            call.ret.err = MultipleErr(w, rv) =>
               Cardinality(OwnedAt(requests, call.crt.uid, rv)) >= 2

\* C3 witness: the certificate and another one each own a request at the
\* queried revision R; the call succeeds and returns the certificate's own.
C3_Witness ==
    /\ DoneWithRevision
    /\ Cardinality(OwnedAt(requests, OtherUID, CurRev)) = 1
    /\ Cardinality(OwnedCurrent) = 1
    /\ call.ret.err = Nil
    /\ call.ret.input.CurrentRevisionRequest \in OwnedCurrent

\* C4: in a call that succeeds, a window with no request of the certificate
\* gives a nil field and a window with exactly one gives that stored request.
C4_ZeroOrOneMatch ==
    Succeeded =>
      /\ call.crt.revision # {} =>
            /\ OwnedCurrent = {} =>
                  call.ret.input.CurrentRevisionRequest = Nil
            /\ Cardinality(OwnedCurrent) = 1 =>
                  /\ call.ret.input.CurrentRevisionRequest \in requests
                  /\ OwnedCurrent = {call.ret.input.CurrentRevisionRequest}
      /\ OwnedNext = {} => call.ret.input.NextRevisionRequest = Nil
      /\ Cardinality(OwnedNext) = 1 =>
            /\ call.ret.input.NextRevisionRequest \in requests
            /\ OwnedNext = {call.ret.input.NextRevisionRequest}

\* C4 witness: revision R, no request at R and one at R+1; the call succeeds
\* with a nil current request and the stored request as next.
C4_Witness ==
    /\ Succeeded
    /\ call.crt.revision # {}
    /\ OwnedCurrent = {}
    /\ Cardinality(OwnedNext) = 1
    /\ call.ret.input.CurrentRevisionRequest = Nil
    /\ call.ret.input.NextRevisionRequest \in OwnedNext

\* C5: when the lookup of a window is reached and answers, and the
\* certificate owns two or more requests at the revision of that window, the
\* call fails with the empty Input and the error naming that window and that
\* revision, the same for two duplicates as for more.
C5_DuplicatesAreAmbiguity ==
    (Done /\ SecretOutcome(call) = Nil) =>
      /\ (call.crt.revision # {} /\ CurrentOutcome(call) = Nil
          /\ Cardinality(OwnedCurrent) >= 2) =>
            call.ret = [input |-> EmptyInput,
                        err |-> MultipleErr("current", CurRev)]
      /\ ((call.crt.revision # {} =>
              (CurrentOutcome(call) = Nil /\ Cardinality(OwnedCurrent) <= 1))
          /\ NextOutcome(call) = Nil
          /\ Cardinality(OwnedNext) >= 2) =>
            call.ret = [input |-> EmptyInput,
                        err |-> MultipleErr("next",
                                            IF call.crt.revision = {} THEN 1
                                            ELSE CurRev + 1)]

\* C5 witness: three requests of the certificate at its revision R; the call
\* fails with the error of the "current" window.
C5_Witness ==
    /\ DoneWithRevision
    /\ Cardinality(OwnedCurrent) >= 3
    /\ call.ret.err = MultipleErr("current", CurRev)

\* C6: a secret lookup answered NotFound never fails the call: the result is
\* the one of a cache without the secret, its secret nil and the requests
\* resolved as ever; a secret lookup failing otherwise fails the call with
\* that very error and the empty Input, whatever the requests are.
C6_SecretNotFoundTolerated ==
    Done =>
      /\ call.queries[1].op = "Secrets.Get"
      /\ call.queries[1].err = NotFoundErr =>
            /\ call.ret.err # NotFoundErr
            /\ call.ret.err = Nil => call.ret.input.Secret = Nil
            /\ call.ret = Expected(call.crt, {}, requests, Nil,
                                   CurrentOutcome(call), NextOutcome(call))
      /\ call.queries[1].err \notin {Nil, NotFoundErr} =>
            call.ret = [input |-> EmptyInput, err |-> call.queries[1].err]

\* C6 witness: the secret of the certificate is not in the cache; the call
\* succeeds with a nil secret and returns the current request.
C6_Witness ==
    /\ DoneWithRevision
    /\ CrtSecretName \notin secrets
    /\ call.queries[1].err = NotFoundErr
    /\ call.ret.err = Nil
    /\ call.ret.input.Secret = Nil
    /\ call.ret.input.CurrentRevisionRequest \in OwnedCurrent

\* C7: a call that returns an error returns the empty Input.
C7_ErrorReturnsEmptyInput ==
    (Done /\ call.ret.err # Nil) => call.ret.input = EmptyInput

\* C7 witness: the call found the secret and the current request and then
\* two requests for the "next" revision; it returns the error and no field.
C7_Witness ==
    /\ DoneWithRevision
    /\ call.secret # Nil
    /\ call.curCR # Nil
    /\ call.ret.err = MultipleErr("next", CurRev + 1)
    /\ call.ret.input = EmptyInput

\* C8: a step in which a call returns leaves both caches as they were, and the
\* certificate of a result without error is the certificate given.
C8_NoSideEffects ==
    [][call'.pc = "done" =>
         /\ requests' = requests
         /\ secrets' = secrets
         /\ call'.ret.err = Nil => call'.ret.input.Certificate = call'.crt
         /\ call'.crt \in Certificates]_vars

\* C8 witness: a call returned without error from caches holding a secret
\* and duplicates of the certificate at a revision it did not query.
C8_Witness ==
    /\ Succeeded
    /\ secrets # {}
    /\ \E r \in requests : r.owner = call.crt.uid /\ r.serial > 1
    /\ call.ret.input.Certificate = call.crt
    /\ call.ret.input.Certificate.revision # {}

\* C9: a call during which no cache changed returns what the caches at its
\* return give, whatever earlier calls returned.
C9_QuietPassIsExact ==
    (Done /\ ~dirty) => call.ret = ExpectedNow(call)

\* C9 witness: after a call that returned a torn view, a call during which
\* the caches held still returns a request the cache holds.
C9_Witness ==
    /\ Done
    /\ ~dirty
    /\ tornBefore
    /\ call.ret.err = Nil
    /\ call.ret.input.NextRevisionRequest \in requests
    /\ call.ret = ExpectedNow(call)

\* C10: the lookups are made in the order secret, "current", "next" and the
\* first failure ends the call: nothing is looked up after a failure of the
\* secret lister, nothing after a failure or duplicates in the "current"
\* window, and with duplicates in both windows the error is the one of the
\* "current" window.
C10_FixedOrderFailFast ==
    Done =>
      LET q == call.queries
          R == call.crt.revision
      IN /\ Len(q) >= 1
         /\ q[1].op = "Secrets.Get"
         /\ \A i \in 2..Len(q) : q[i].op = "List"
         /\ Len(q) <= (IF R = {} THEN 2 ELSE 3)
         /\ \A i \in 2..Len(q) :
               QueriedRevisions(q[i]) =
                  {IF R = {} THEN 1 ELSE CurRev + (i - 2)}
         /\ SecretOutcome(call) # Nil => Len(q) = 1
         /\ (R # {} /\ Len(q) >= 2
             /\ (q[2].err # Nil \/ Cardinality(OwnedCurrent) >= 2)) =>
               Len(q) = 2
         /\ (R # {} /\ SecretOutcome(call) = Nil /\ CurrentOutcome(call) = Nil
             /\ Cardinality(OwnedCurrent) >= 2
             /\ Cardinality(OwnedNext) >= 2) =>
               call.ret.err = MultipleErr("current", CurRev)

\* C10 witness: the certificate owns two requests at its revision R and two
\* at R+1; the call made the secret and the "current" lookup only and returns
\* the error of the "current" window.
C10_Witness ==
    /\ DoneWithRevision
    /\ Cardinality(OwnedCurrent) >= 2
    /\ Cardinality(OwnedNext) >= 2
    /\ Len(call.queries) = 2
    /\ call.ret.err = MultipleErr("current", CurRev)

\* C11: a call fails only when the secret lister failed with an error other
\* than NotFound, a request lookup failed, or the certificate owns two or
\* more requests at a queried revision; so with both listers answering and at
\* most one such request per queried revision the call succeeds, whatever
\* duplicates the cache holds at revisions that are not queried.
C11_FailsOnlyForListedCauses ==
    (Done /\ call.ret.err # Nil) =>
      \/ SecretOutcome(call) # Nil
      \/ CurrentOutcome(call) # Nil
      \/ NextOutcome(call) # Nil
      \/ (call.crt.revision # {} /\ Cardinality(OwnedCurrent) >= 2)
      \/ Cardinality(OwnedNext) >= 2

\* C11 witness: the certificate owns one request at each queried revision and
\* two at a revision that is not queried; both listers answered and the call
\* returns both requests without error.
C11_Witness ==
    /\ DoneWithRevision
    /\ SecretOutcome(call) = Nil
    /\ CurrentOutcome(call) = Nil
    /\ NextOutcome(call) = Nil
    /\ Cardinality(OwnedCurrent) = 1
    /\ Cardinality(OwnedNext) = 1
    /\ \E rv \in ReqRevisions \ {CurRev, CurRev + 1} :
          Cardinality(OwnedAt(requests, call.crt.uid, rv)) >= 2
    /\ call.ret.err = Nil
    /\ call.ret.input.CurrentRevisionRequest \in OwnedCurrent
    /\ call.ret.input.NextRevisionRequest \in OwnedNext

====
